---- MODULE Spec2Model ----
(***************************************************************************)
(* A model of pybel-web (BEL Commons): the background tasks of             *)
(* celery_worker.py and the access-controlled views and routes of          *)
(* admin_utils.py, admin_service.py, application_utils.py and              *)
(* main_service.py.                                                        *)
(*                                                                         *)
(* Library calls (the BEL parser, the ORM session, the mail extension) are *)
(* modelled by their outcome.  A library call raises in the model exactly  *)
(* where the calling code has a handler for it (an except clause around    *)
(* the call), or where Python itself raises (a missing dictionary key, an  *)
(* attribute of None).  Where the outcome of a step depends on how the     *)
(* session was configured (a row read after session.close()), both         *)
(* outcomes are drawn.                                                     *)
(***************************************************************************)
EXTENDS Integers, Sequences, FiniteSets, TLC

VARIABLES
    reports,         \* the Report table: report id -> row
    networks,        \* the Network table: network id (position) -> row
    mailConfigured,  \* 'mail' in app.extensions
    queue,           \* the report ids of the dispatched 'pybelparser' tasks, oldest first
    last,            \* the last task run or request: its inputs, calls and result
    projects,        \* the Project table: project id -> row
    queries,         \* the Query table: the persisted queries, oldest first
    cache,           \* the network ids held by the in-memory API (DatabaseService)
    tablesExist,     \* the tables of Base.metadata exist in the database
    sessionPending,  \* the web session holds an uncommitted (failed) transaction
    enriched,        \* api.universe has had its citations enriched
    taskQueue,       \* the tasks sent to celery by name, oldest first
    experiments,     \* the Experiment table: experiment id -> row
    files,           \* the files written under PYBEL_DATA_DIR: path -> content
    uuids,           \* the number of UUIDs uuid.uuid4() has generated
    instances,       \* the FlaskPyBEL objects constructed: object id -> attributes
    pbw              \* app.extensions['pbw']: an object id (0: the key is missing)

dbVars == <<reports, networks, projects>>
appVars == <<queries, cache, tablesExist, sessionPending, enriched, taskQueue>>
taskVars == <<experiments, files, uuids>>
extVars == <<instances, pbw>>
vars == <<reports, networks, mailConfigured, queue, last,
          projects, queries, cache, tablesExist, sessionPending, enriched, taskQueue,
          experiments, files, uuids, instances, pbw>>

----------------------------------------------------------------------------
(* Bounds *)

NumReports == 2
NumNetworks == 2
NumProjects == 2
MaxTasks == 2
MaxQueries == 1
NumExperiments == 2
MaxUuids == 2
MaxInstances == 2
MaxInits == 2

----------------------------------------------------------------------------
(* Users, constants.py and the module-level data of celery_worker.py *)

None == "None"

CHARLIE_EMAIL == "charles.hoyt@scai.fraunhofer.de"
DANIEL_EMAIL == "daniel.domingo.fernandez@scai.fraunhofer.de"

\* The users of the database: an administrator created by _prepare_service,
\* the SCAI test user it creates, and an ordinary registered user.
Users == {"charlie", "test", "alice"}

Email(u) ==
    CASE u = "charlie" -> CHARLIE_EMAIL
      [] u = "test" -> "test@scai.fraunhofer.de"
      [] OTHER -> "alice@example.org"

Roles(u) ==
    CASE u = "charlie" -> {"admin", "scai"}
      [] u = "test" -> {"scai"}
      [] OTHER -> {}

pbw_sender == <<"PyBEL Web", "pybel@scai.fraunhofer.de">>

\* dumb_belief_stuff: metadata key -> the "default" values that get a document rejected
dumb_belief_stuff ==
    [k \in {"description", "contact", "licenses"} |->
        CASE k = "description" -> {"Document description"}
          [] k = "contact" -> {"your@email.com"}
          [] OTHER -> {"Document license"}]

\* integrity_message.format(name, version)
integrity_message(name, version) ==
    <<"A graph with the same name (", name, ") and version (", version,
      ") already exists. If there have been changes since the last version, try bumping the version number.">>

----------------------------------------------------------------------------
(* Values the libraries produce *)

\* hashlib.sha1(b).hexdigest(): equal digests exactly for equal byte strings
Sha1Hex(b) == <<"sha1", b>>

\* pybel.to_bytes(x) pickles x.  The pickle of a BEL graph is determined by the
\* graph's content; the pickle of a Network row is the pickle of the ORM
\* object, which holds the row's columns (its blob among them).
to_bytes(x) ==
    IF "content" \in DOMAIN x
    THEN <<"pickle", "BELGraph", x.content>>
    ELSE <<"pickle", "Network", x.name, x.version, x.blob>>

\* str(graph) and str(network)
Str(x) == <<x.name, " v", x.version>>

CleanDocument == {<<"description", "A real description">>, <<"contact", "alice@example.org">>}
DefaultDocument == {<<"description", "Document description">>, <<"contact", "alice@example.org">>}

Graphs ==
    { [name |-> "g1", version |-> "1.0", content |-> c, document |-> CleanDocument] :
          c \in {"c1", "c2"} }
    \cup { [name |-> "", version |-> "1.0", content |-> "c1", document |-> CleanDocument],
           [name |-> "g1", version |-> "", content |-> "c1", document |-> CleanDocument],
           [name |-> "g1", version |-> "1.0", content |-> "c1", document |-> DefaultDocument] }

\* An exception is the set of classes it is an instance of, with its attributes.
ParseExceptions ==
    { [types |-> {"ConnectionError", "RequestException", "Exception"}, text |-> "refused"],
      [types |-> {"InconsistentDefinitionError", "PyBelWarning", "Exception"},
       definition |-> "HGNC", line_number |-> "7", text |-> "redefined"],
      [types |-> {"ValueError", "Exception"}, text |-> "boom"] }

\* What report.parse_graph(manager=manager) does: it raises or returns a graph
ParseOutcomes ==
    { [raises |-> TRUE, exc |-> e] : e \in ParseExceptions }
    \cup { [raises |-> FALSE, graph |-> g] : g \in Graphs }

\* What the enrichment block does (add_canonical_names ... enrich_pubmed_citations)
EnrichOutcomes == {"ok", "IntegrityError", "OperationalError", "Exception"}

\* What manager.insert_graph does
InsertOutcomes == {"ok", "IntegrityError", "OperationalError", "Exception"}

\* What fill_out_report ... session.commit() does
FillOutcomes == {"ok", "Exception"}

Unused == "unused"

----------------------------------------------------------------------------
(* The database *)

\* report.message is None until a task sets it
NoMessage == <<>>

ReportIds == 1..NumReports

\* network.report: the report whose network this is (0: the network has none)
NetworkReport(reps, nid) ==
    IF \E r \in DOMAIN reps : reps[r].network = nid
    THEN CHOOSE r \in DOMAIN reps : reps[r].network = nid
    ELSE 0

\* session.query(Network).filter(name == .., version == ..).one_or_none(): 0 for None
LookupNetwork(nets, name, version) ==
    IF \E n \in DOMAIN nets : nets[n].name = name /\ nets[n].version = version
    THEN CHOOSE n \in DOMAIN nets : nets[n].name = name /\ nets[n].version = version
    ELSE 0

\* A returned integer
IntValue(i) == <<"int", ToString(i)>>

----------------------------------------------------------------------------
(* celery_worker.async_parser *)

\* Mutant of make_mail: the check of app.extensions is dropped
make_mail_Unconditional(r, subject, body) ==
    << [subject |-> subject, recipients |-> {Email(reports[r].user)},
        body |-> body, sender |-> pbw_sender] >>

\* make_mail: the messages it sends
make_mail(r, subject, body) ==
    IF ~mailConfigured
    THEN <<>>
    ELSE << [subject |-> subject, recipients |-> {Email(reports[r].user)},
             body |-> body, sender |-> pbw_sender] >>

\* A run that ends by raising: nothing of the session is committed
Raise(c, exc) ==
    [state |-> "raised", ret |-> <<exc>>, subject |-> None,
     calls |-> c.calls, mails |-> c.mails,
     reports |-> c.reports, networks |-> c.networks]

\* finish_parsing(subject, body): mail, report.message = body, commit, return body
finish_parsing(r, subject, body, c) ==
    [state |-> "returned", ret |-> body, subject |-> subject,
     calls |-> c.calls \o <<"session.commit">>,
     mails |-> c.mails \o make_mail(r, subject, body),
     reports |-> [c.reports EXCEPT ![r].message = body],
     networks |-> c.networks]

\* Mutant of ParseFailureMessage: the general clause comes before the
\* inconsistent-definition clause
ParseFailureMessage_GeneralFirst(source_name, e) ==
    IF "ConnectionError" \in e.types
    THEN <<"Connection to resource could not be established.">>
    ELSE IF "Exception" \in e.types
    THEN <<"Parsing failed for ", source_name, " from a general error: ", e.text>>
    ELSE <<"Parsing failed for ", source_name, " because ", e.definition,
           " was redefined on line ", e.line_number, ".">>

\* The except chain around report.parse_graph: the first clause the exception
\* is an instance of
ParseFailureMessage(source_name, e) ==
    IF "ConnectionError" \in e.types
    THEN <<"Connection to resource could not be established.">>
    ELSE IF "InconsistentDefinitionError" \in e.types
    THEN <<"Parsing failed for ", source_name, " because ", e.definition,
           " was redefined on line ", e.line_number, ".">>
    ELSE <<"Parsing failed for ", source_name, " from a general error: ", e.text>>

\* problem = {k: v for k, v in graph.document.items() if k in dumb_belief_stuff and v in ...}
Problem(graph) ==
    { kv \in graph.document :
        kv[1] \in DOMAIN dumb_belief_stuff /\ kv[2] \in dumb_belief_stuff[kv[1]] }

\* fill_out_report(network, report, graph_summary): links the report to the
\* network and stores the summary on it
fill_out_report(rep, nid) ==
    [rep EXCEPT !.network = nid, !.completed = TRUE]

\* The hash comparison of the duplicate branch (line 220)
HashesDiffer(network, graph) ==
    Sha1Hex(network.blob) # Sha1Hex(to_bytes(network))

\* Mutant of DuplicateBranch: the comparison of the two reports' users is dropped
\* and the uploader is given rights on the stored network
DuplicateBranch_GrantsOwner(r, graph, nid, c) ==
    LET network == c.networks[nid]
        source_name == c.reports[r].source_name
    IN  finish_parsing(r, <<"Granted Rights from ", source_name>>,
            <<"Granted rights for ">> \o Str(network) \o <<" to ", c.reports[r].user,
              " after parsing ", source_name>>,
            [c EXCEPT !.networks[nid].users = @ \cup {c.reports[r].user},
                      !.calls = @ \o <<"session.commit">>])

\* The branch taken when a network of the graph's name and version is stored
DuplicateBranch(r, graph, nid, c) ==
    LET network == c.networks[nid]
        source_name == c.reports[r].source_name
        message == integrity_message(graph.name, graph.version)
        nrep == NetworkReport(c.reports, nid)
    IN  IF nrep = 0
        THEN Raise(c, "AttributeError")
        ELSE IF c.reports[nrep].user = c.reports[r].user
        THEN finish_parsing(r, <<"Uploading Failed for ", source_name>>, message, c)
        ELSE IF HashesDiffer(network, graph)
        THEN IF ~mailConfigured
             THEN Raise(c, "KeyError")
             ELSE finish_parsing(r, <<"Upload Failed for ", source_name>>, message,
                    [c EXCEPT !.mails = @ \o
                        << [subject |-> <<"Possible attempted Espionage">>,
                            recipients |-> {CHARLIE_EMAIL, DANIEL_EMAIL},
                            body |-> <<"The following user (", c.reports[r].user, " ",
                                       Email(c.reports[r].user),
                                       ") may have attempted espionage of network: ">>
                                     \o Str(network),
                            sender |-> pbw_sender] >>])
        ELSE finish_parsing(r, <<"Granted Rights from ", source_name>>,
                <<"Granted rights for ">> \o Str(network) \o <<" to ", c.reports[r].user,
                  " after parsing ", source_name>>,
                [c EXCEPT !.networks[nid].users = @ \cup {c.reports[r].user},
                          !.calls = @ \o <<"session.commit">>])

\* The enrichment block: its exceptions are logged and swallowed
Enrich(eo, c) ==
    IF eo \in {"IntegrityError", "OperationalError"}
    THEN [c EXCEPT !.calls = @ \o <<"enrich", "session.rollback">>]
    ELSE [c EXCEPT !.calls = @ \o <<"enrich">>]

\* fill_out_report ... return network.id, its except clause and its finally
ReportBlock(r, graph, nid, fo, c) ==
    LET source_name == c.reports[r].source_name IN
    IF fo = "ok"
    THEN [state |-> "returned", ret |-> IntValue(nid),
          subject |-> <<"Successfully uploaded ", source_name, " (">> \o Str(graph) \o <<")">>,
          calls |-> c.calls \o <<"fill_out_report", "session.commit", "session.close">>,
          mails |-> c.mails \o
              make_mail(r, <<"Successfully uploaded ", source_name, " (">> \o Str(graph) \o <<")">>,
                        <<source_name, " (">> \o Str(graph)
                            \o <<") is done parsing. Check the network list page.">>),
          reports |-> [c.reports EXCEPT ![r] = fill_out_report(@, nid)],
          networks |-> c.networks]
    ELSE [state |-> "returned", ret |-> IntValue(-1),
          subject |-> <<"Report unsuccessful for ", source_name>>,
          calls |-> c.calls \o <<"fill_out_report", "session.rollback", "session.close">>,
          mails |-> c.mails \o
              make_mail(r, <<"Report unsuccessful for ", source_name>>, <<fo>>),
          reports |-> c.reports,
          networks |-> c.networks]

\* Mutant of InsertBlock: no clause for OperationalError, which falls to the
\* general clause
InsertBlock_NoOperationalClause(r, graph, io, fo, c) ==
    LET source_name == c.reports[r].source_name
        upload_failed_text == <<"Upload Failed for ", source_name>>
        c1 == [c EXCEPT !.calls = @ \o <<"insert_graph">>]
        failed == [c1 EXCEPT !.calls = @ \o <<"session.rollback">>]
    IN  CASE io = "IntegrityError" ->
               finish_parsing(r, upload_failed_text,
                              integrity_message(graph.name, graph.version), failed)
          [] io \in {"OperationalError", "Exception"} ->
               finish_parsing(r, upload_failed_text,
                              <<"Error storing in database: ", io>>, failed)
          [] OTHER ->
               ReportBlock(r, graph, Len(c.networks) + 1, fo,
                   [c1 EXCEPT !.networks = Append(@,
                        [name |-> graph.name, version |-> graph.version,
                         blob |-> to_bytes(graph), users |-> {}])])

\* manager.insert_graph and what follows it
InsertBlock(r, graph, io, fo, c) ==
    LET source_name == c.reports[r].source_name
        upload_failed_text == <<"Upload Failed for ", source_name>>
        c1 == [c EXCEPT !.calls = @ \o <<"insert_graph">>]
        failed == [c1 EXCEPT !.calls = @ \o <<"session.rollback">>]
    IN  CASE io = "IntegrityError" ->
               finish_parsing(r, upload_failed_text,
                              integrity_message(graph.name, graph.version), failed)
          [] io = "OperationalError" ->
               finish_parsing(r, upload_failed_text,
                              <<"Database is locked. Unable to upload.">>, failed)
          [] io = "Exception" ->
               finish_parsing(r, upload_failed_text,
                              <<"Error storing in database: ", io>>, failed)
          [] OTHER ->
               ReportBlock(r, graph, Len(c.networks) + 1, fo,
                   [c1 EXCEPT !.networks = Append(@,
                        [name |-> graph.name, version |-> graph.version,
                         blob |-> to_bytes(graph), users |-> {}])])

\* The body of async_parser for an existing report
ParseReport(r, po, eo, io, fo) ==
    LET source_name == reports[r].source_name
        c0 == [calls |-> <<"parse_graph">>, mails |-> <<>>,
               reports |-> reports, networks |-> networks]
    IN  IF po.raises
        THEN finish_parsing(r, <<"Parsing Failed for ", source_name>>,
                            ParseFailureMessage(source_name, po.exc), c0)
        ELSE LET graph == po.graph IN
             IF graph.name = ""
             THEN finish_parsing(r, <<"Parsing Failed for ", source_name>>,
                    <<"Parsing failed for ", source_name,
                      " because SET DOCUMENT Name was missing.">>, c0)
             ELSE IF graph.version = ""
             THEN finish_parsing(r, <<"Parsing Failed for ", source_name>>,
                    <<"Parsing failed for ", source_name,
                      " because SET DOCUMENT Version was missing.">>, c0)
             ELSE IF Problem(graph) # {}
             THEN finish_parsing(r, <<"Rejected ", source_name>>,
                    <<source_name, " was rejected because it has \"default\" metadata: ">>
                        \o <<Problem(graph)>>, c0)
             ELSE LET c1 == [c0 EXCEPT !.calls = @ \o <<"query(Network)">>]
                      nid == LookupNetwork(networks, graph.name, graph.version)
                  IN  IF nid # 0
                      THEN DuplicateBranch(r, graph, nid, c1)
                      ELSE InsertBlock(r, graph, io, fo, Enrich(eo, c1))

\* Whether the run gets as far as the enrichment block and insert_graph
ReachesInsert(po) ==
    /\ ~po.raises
    /\ po.graph.name # "" /\ po.graph.version # "" /\ Problem(po.graph) = {}
    /\ LookupNetwork(networks, po.graph.name, po.graph.version) = 0

\* The task async_parser(report_id)
async_parser(report_id) ==
    IF report_id \notin DOMAIN reports
    THEN /\ last' = [task |-> "async_parser", report_id |-> report_id,
                     po |-> Unused, eo |-> Unused, io |-> Unused, fo |-> Unused,
                     state |-> "raised", ret |-> <<"ValueError">>, subject |-> None,
                     calls |-> <<>>, mails |-> <<>>]
         /\ UNCHANGED <<reports, networks, mailConfigured, queue, projects, appVars>>
    ELSE /\ queue # <<>> /\ report_id = Head(queue)
         /\ \E po \in ParseOutcomes :
            \E eo \in IF ReachesInsert(po) THEN EnrichOutcomes ELSE {Unused},
               io \in IF ReachesInsert(po) THEN InsertOutcomes ELSE {Unused} :
            \E fo \in IF ReachesInsert(po) /\ io = "ok" THEN FillOutcomes ELSE {Unused} :
                LET res == ParseReport(report_id, po, eo, io, fo)
                IN  /\ reports' = res.reports
                    /\ networks' = res.networks
                    /\ last' = [task |-> "async_parser", report_id |-> report_id,
                                po |-> po, eo |-> eo, io |-> io, fo |-> fo,
                                state |-> res.state, ret |-> res.ret,
                                subject |-> res.subject,
                                calls |-> res.calls, mails |-> res.mails]
         /\ queue' = Tail(queue)
         /\ UNCHANGED <<mailConfigured, projects, appVars>>

AsyncParserTask ==
    \E report_id \in 1..(NumReports + 1) : async_parser(report_id) /\ UNCHANGED <<taskVars, extVars>>

----------------------------------------------------------------------------
(* The upload tasks: specification *)

NoRun ==
    [task |-> "none", report_id |-> 0,
     po |-> Unused, eo |-> Unused, io |-> Unused, fo |-> Unused,
     state |-> "none", ret |-> <<>>, subject |-> None, calls |-> <<>>, mails |-> <<>>]

\* No experiment uploaded, no merged file written, no UUID generated
NoTaskState ==
    /\ experiments = <<>>
    /\ files = {}
    /\ uuids = 0

\* The objects the n-th init_app of the k-th FlaskPyBEL object creates
CreatedBy(k, n) ==
    [sentry |-> <<"Sentry", ToString(k), ToString(n)>>,
     api |-> <<"DatabaseService", ToString(k), ToString(n)>>,
     user_datastore |-> <<"SQLAlchemyUserDatastore", ToString(k), ToString(n)>>]

\* FlaskPyBEL(app, manager) has been constructed once: the object holds the
\* manager and what init_app created, and is registered as app.extensions['pbw']
Initialised ==
    /\ instances = << [manager |-> <<"Manager", "1">>, sentry |-> CreatedBy(1, 1).sentry,
                       api |-> CreatedBy(1, 1).api,
                       user_datastore |-> CreatedBy(1, 1).user_datastore,
                       inits |-> 1] >>
    /\ pbw = 1

\* The application state of a worker: nothing cached, nothing queued
AppStarted ==
    /\ queries = <<>>
    /\ cache = {}
    /\ tablesExist = TRUE
    /\ sessionPending = FALSE
    /\ enriched = FALSE
    /\ taskQueue = <<>>
    /\ NoTaskState
    /\ Initialised

\* Reports as the upload view creates them (a user, a source, nothing else yet),
\* each with its parse task dispatched
InitParser ==
    /\ reports \in [ReportIds ->
          { [user |-> u, source_name |-> "doc.bel", message |-> NoMessage,
             network |-> 0, completed |-> FALSE, public |-> FALSE] : u \in Users }]
    /\ networks = <<>>
    /\ mailConfigured \in BOOLEAN
    /\ queue = [i \in ReportIds |-> i]
    /\ last = NoRun
    /\ projects = <<>>
    /\ AppStarted

NextParser == AsyncParserTask

SpecParser == InitParser /\ [][NextParser]_vars

----------------------------------------------------------------------------
(* The current user (flask_security) and the User model *)

\* current_user of a request nobody is logged in for
Anonymous == "anonymous"

Requesters == Users \cup {Anonymous}

is_authenticated(u) == u \in Users

\* User.is_admin, User.admin: the user has the 'admin' role
is_admin(u) == u \in Users /\ "admin" \in Roles(u)

\* User.is_scai: the user has the 'scai' role
is_scai(u) == u \in Users /\ "scai" \in Roles(u)

\* User.get_owned_networks(): the networks of the user's reports
get_owned_networks(u) ==
    { reports[r].network : r \in { x \in DOMAIN reports :
                                      reports[x].user = u /\ reports[x].network # 0 } }

\* User.get_shared_networks(): the networks the user is among the users of
get_shared_networks(u) == { n \in DOMAIN networks : u \in networks[n].users }

\* current_user.projects: the projects the user is among the users of
user_projects(u) == { p \in DOMAIN projects : u \in projects[p].users }

\* manager.list_recent_networks(): of each name, the network stored last
list_recent_networks ==
    { n \in DOMAIN networks :
        \A m \in DOMAIN networks : networks[m].name = networks[n].name => m <= n }

\* iter_public_networks: the recent networks whose report exists and is public
iter_public_networks ==
    { n \in list_recent_networks :
        /\ NetworkReport(reports, n) # 0
        /\ reports[NetworkReport(reports, n)].public }

----------------------------------------------------------------------------
(* Requests and responses *)

Request(handler, user, args) == [handler |-> handler, user |-> user, args |-> args]

\* The record of a handled request
Handled(req, status, body, calls) ==
    [task |-> "request", handler |-> req.handler, user |-> req.user, args |-> req.args,
     status |-> status, body |-> body, calls |-> calls]

\* redirect(url_for(endpoint, next=request.url))
RedirectToLogin(endpoint, url) == [redirect |-> endpoint, next |-> url]

\* The handler init_app registers for 500: it renders the 500 page with the
\* Sentry event id and the public DSN, and makes no other call.  calls are the
\* calls of the view that raised error.
internal_server_error(req, error, calls) ==
    Handled(req, "500",
            [template |-> "500.html", event_id |-> "g.sentry_event_id",
             public_dsn |-> "sentry.client.get_public_dsn", error |-> error],
            calls \o <<"render_template">>)

----------------------------------------------------------------------------
(* The Flask-Admin views: admin_utils.py, admin_service.py, application_utils.py *)

\* The model views application_utils._build_admin_service registers
AdminUtilsViews ==
    { [module |-> "application_utils", class |-> "ModelView", model |-> m] :
        m \in {"User", "Role", "Namespace", "Annotation", "Network", "Node", "Edge",
               "Citation", "Evidence", "Author", "Report", "Experiment", "Query",
               "Assembly", "EdgeVote", "EdgeComment"} }
    \cup { [module |-> "application_utils", class |-> "ProjectView", model |-> "Project"] }

\* The model views admin_service.build_admin_service registers
AdminServiceViews ==
    { [module |-> "admin_service", class |-> "ModelView", model |-> m] :
        m \in {"User", "Role", "Namespace", "Annotation", "Network", "Report",
               "Experiment", "Query", "Assembly"} }
    \cup { [module |-> "admin_service", class |-> "ProjectView", model |-> "Project"] }

Views == AdminUtilsViews \cup AdminServiceViews

\* request.url of a view's page
ViewUrl(view) == <<"/admin/", view.model>>

\* Mutant of ModelView_is_accessible: any logged-in user passes
ModelView_is_accessible_AnyUser(u) == is_authenticated(u)

\* ModelView.is_accessible (both modules): authenticated and an admin
ModelView_is_accessible(u) == is_authenticated(u) /\ is_admin(u)

\* is_accessible of a registered view: ModelView's for the views built on it,
\* application_utils.ProjectView's own, and Flask-Admin's default (True) for
\* admin_service.ProjectView, which overrides nothing
is_accessible(view, u) ==
    CASE view.class = "ModelView" -> ModelView_is_accessible(u)
      [] view.module = "application_utils" -> is_authenticated(u)
      [] OTHER -> TRUE

\* inaccessible_callback: url_for_security('login', ..) in admin_utils and
\* application_utils, url_for('login', ..) in admin_service
inaccessible_callback(view, url) ==
    IF view.module = "application_utils"
    THEN RedirectToLogin("security.login", url)
    ELSE RedirectToLogin("login", url)

\* Mutant of ProjectView_get_query: every user gets the parent query
ProjectView_get_query_Unfiltered(view, u) == DOMAIN projects

\* ProjectView.get_query: the project ids of the query it returns
ProjectView_get_query(view, u) ==
    IF view.module = "application_utils" /\ is_admin(u)
    THEN DOMAIN projects
    ELSE { p \in DOMAIN projects : p \in user_projects(u) }

\* A request for a view's list page: Flask-Admin serves it when the view is
\* accessible and answers with inaccessible_callback otherwise
HandleView(u, view) ==
    LET req == Request("admin_view", u, view) IN
    /\ last' =
         IF ~is_accessible(view, u)
         THEN Handled(req, "302", inaccessible_callback(view, ViewUrl(view)), <<>>)
         ELSE IF view.class # "ProjectView"
         THEN Handled(req, "200", [served |-> view.model], <<"get_query">>)
         ELSE IF ~is_authenticated(u)
         THEN Handled(req, "500", [raised |-> "AttributeError"], <<>>)
         ELSE Handled(req, "200",
                      [served |-> view.model, rows |-> ProjectView_get_query(view, u)],
                      <<"get_query">>)
    /\ UNCHANGED <<reports, networks, mailConfigured, queue, projects, appVars>>

ViewRequest ==
    \E u \in Requesters, view \in Views : HandleView(u, view) /\ UNCHANGED <<taskVars, extVars>>

\* The projects of the database: each with some of the users
InitViews ==
    /\ projects \in [1..NumProjects -> { [users |-> us, networks |-> {}] : us \in SUBSET Users }]
    /\ reports = <<>>
    /\ networks = <<>>
    /\ mailConfigured = FALSE
    /\ queue = <<>>
    /\ last = NoRun
    /\ AppStarted

NextViews == ViewRequest

SpecViews == InitViews /\ [][NextViews]_vars

----------------------------------------------------------------------------
(* The network AJAX loaders: application_utils.py and admin_service.py *)

\* flask_admin.model.ajax.DEFAULT_PAGE_SIZE
DEFAULT_PAGE_SIZE == 10

Lower(ch) ==
    CASE ch = "A" -> "a" [] ch = "B" -> "b" [] ch = "C" -> "c" [] OTHER -> ch

LowerSeq(str) == [i \in DOMAIN str |-> Lower(str[i])]

\* field.ilike('%term%'): term occurs in the field, whatever the case
ilike(field, term) ==
    \E i \in 0..(Len(field) - Len(term)) :
        SubSeq(LowerSeq(field), i + 1, i + Len(term)) = LowerSeq(term)

\* query.filter(or_(*filters)) over Network.name: the ids of the matching rows, by id
MatchingNetworks(term) ==
    LET Matches(n) == ilike(networks[n].name, term)
    IN  SelectSeq([i \in DOMAIN networks |-> i], Matches)

\* query.filter(Network.id.in_(ids))
FilterIn(rows, ids) ==
    LET Allowed(n) == n \in ids IN SelectSeq(rows, Allowed)

\* query.offset(offset).limit(limit).all()
Window(rows, offset, limit) ==
    SubSeq(rows, offset + 1, IF offset + limit < Len(rows) THEN offset + limit ELSE Len(rows))

\* scai_role.users
scai_users == { x \in Users : "scai" \in Roles(x) }

\* Mutant of get_list: the networks of the scai users are allowed to every user
get_list_ScaiForAll(module, u, term, offset, limit) ==
    LET query == MatchingNetworks(term)
        allowed_network_ids ==
            get_owned_networks(u) \cup get_shared_networks(u) \cup iter_public_networks
            \cup UNION { get_owned_networks(x) : x \in scai_users }
    IN  IF is_admin(u) THEN Window(query, offset, limit)
        ELSE IF allowed_network_ids = {} THEN <<>>
        ELSE Window(FilterIn(query, allowed_network_ids), offset, limit)

\* NetworkAjaxModelLoader.get_list of application_utils and of admin_service
get_list(module, u, term, offset, limit) ==
    LET query == MatchingNetworks(term) IN
    IF module = "application_utils"
    THEN IF ~is_admin(u)
         THEN LET network_chain ==
                      get_owned_networks(u) \cup get_shared_networks(u)
                          \cup iter_public_networks
                  allowed_network_ids ==
                      IF is_scai(u)
                      THEN network_chain \cup UNION { get_owned_networks(x) : x \in scai_users }
                      ELSE network_chain
              IN  IF allowed_network_ids = {}
                  THEN <<>>
                  ELSE Window(FilterIn(query, allowed_network_ids), offset, limit)
         ELSE Window(query, offset, limit)
    ELSE IF ~is_admin(u)
         THEN Window(FilterIn(query, get_owned_networks(u)), offset, limit)
         ELSE Window(query, offset, limit)

Terms == {<<>>, <<"a">>, <<"C">>}

Windows == {<<0, DEFAULT_PAGE_SIZE>>, <<0, 1>>, <<1, 1>>}

\* The AJAX lookup of the project form, made by a logged-in user
AjaxLookup ==
    \E module \in {"application_utils", "admin_service"}, u \in Users,
       term \in Terms, w \in Windows :
        /\ last' = Handled(
               Request("ajax_lookup", u,
                       [module |-> module, term |-> term, offset |-> w[1], limit |-> w[2]]),
               "200", get_list(module, u, term, w[1], w[2]), <<>>)
        /\ UNCHANGED <<reports, networks, mailConfigured, queue, projects, appVars>>
        /\ UNCHANGED <<taskVars, extVars>>

\* Name of the i-th stored network: the odd ones are versions of one document,
\* the even ones of another
NetworkName(i) == IF i % 2 = 0 THEN <<"b", "C">> ELSE <<"A", "b">>

\* What a stored network's report can be: none (stored by parse-url), or the
\* report of the user who uploaded it
NetworkOrigins ==
    { [user |-> None, public |-> FALSE],
      [user |-> "alice", public |-> FALSE],
      [user |-> "charlie", public |-> FALSE],
      [user |-> "test", public |-> TRUE] }

\* The reports and networks of a database whose i-th network has origin o[i]
\* and is shared with the users s[i]
ReportsOf(o) ==
    [i \in DOMAIN o |->
        [user |-> o[i].user, source_name |-> "doc.bel", message |-> NoMessage,
         network |-> IF o[i].user = None THEN 0 ELSE i,
         completed |-> o[i].user # None, public |-> o[i].public]]

NetworksOf(o, s) ==
    [i \in DOMAIN o |->
        [name |-> NetworkName(i), version |-> ToString(i),
         blob |-> <<"pickle", "BELGraph", "c1">>, users |-> s[i]]]

InitAjax ==
    /\ \E o \in [1..NumNetworks -> NetworkOrigins],
          s \in [1..NumNetworks -> {{}, {"alice"}}] :
            /\ reports = ReportsOf(o)
            /\ networks = NetworksOf(o, s)
    /\ projects = <<>>
    /\ mailConfigured = FALSE
    /\ queue = <<>>
    /\ last = NoRun
    /\ AppStarted

NextAjax == AjaxLookup

SpecAjax == InitAjax /\ [][NextAjax]_vars

----------------------------------------------------------------------------
(* main_service.build_dictionary_service_admin: the /admin routes *)

\* flask_security.roles_required(role): the view runs only for a user with the role
roles_required(role, u) == u \in Users /\ role \in Roles(u)

\* What the decorator answers in the view's place
Unauthorized(req) ==
    /\ last' = Handled(req, "403", [unauthorized |-> TRUE], <<>>)
    /\ UNCHANGED <<reports, networks, mailConfigured, queue, projects, appVars>>

TEST_BEL_URL == "https://raw.githubusercontent.com/pybel/pybel/develop/tests/bel/test_bel.bel"

\* pybel_tools.constants.GENE_FAMILIES
GENE_FAMILIES == "GENE_FAMILIES"

\* /admin/reload
run_reload(u) ==
    LET req == Request("run_reload", u, "/admin/reload") IN
    IF ~roles_required("admin", u) THEN Unauthorized(req)
    ELSE IF tablesExist
    THEN /\ cache' = DOMAIN networks
         /\ last' = Handled(req, "200", [message |-> "reloaded networks"],
                            <<"api.clear", "api.cache_networks">>)
         /\ UNCHANGED <<reports, networks, mailConfigured, queue, projects, queries,
                        tablesExist, sessionPending, enriched, taskQueue>>
    ELSE /\ cache' = {}
         /\ last' = internal_server_error(req, "OperationalError",
                                           <<"api.clear", "api.cache_networks">>)
         /\ UNCHANGED <<reports, networks, mailConfigured, queue, projects, queries,
                        tablesExist, sessionPending, enriched, taskQueue>>

\* /admin/rollback
rollback(u) ==
    LET req == Request("rollback", u, "/admin/rollback") IN
    IF ~roles_required("admin", u) THEN Unauthorized(req)
    ELSE /\ sessionPending' = FALSE
         /\ last' = Handled(req, "200", [message |-> "rolled back"], <<"session.rollback">>)
         /\ UNCHANGED <<reports, networks, mailConfigured, queue, projects, queries,
                        cache, tablesExist, enriched, taskQueue>>

\* /admin/enrich
run_enrich_authors(u) ==
    LET req == Request("run_enrich_authors", u, "/admin/enrich") IN
    IF ~roles_required("admin", u) THEN Unauthorized(req)
    ELSE /\ enriched' = TRUE
         /\ last' = Handled(req, "200", [message |-> "enriched authors"],
                            <<"enrich_pubmed_citations">>)
         /\ UNCHANGED <<reports, networks, mailConfigured, queue, projects, queries,
                        cache, tablesExist, sessionPending, taskQueue>>

\* Mutant of nuke: the roles_required decorator is missing
nuke_Unprotected(u) ==
    /\ tablesExist' = FALSE
    /\ reports' = <<>> /\ networks' = <<>> /\ projects' = <<>> /\ queries' = <<>>
    /\ experiments' = <<>>
    /\ cache' = {}
    /\ last' = Handled(Request("nuke", u, "/admin/nuke/"), "200",
                       [message |-> "nuked the database"],
                       <<"drop_all", "drop_all", "api.clear">>)
    /\ UNCHANGED <<mailConfigured, queue, sessionPending, enriched, taskQueue>>

\* /admin/nuke/: Base.metadata.drop_all twice, then api.clear()
nuke(u) ==
    LET req == Request("nuke", u, "/admin/nuke/") IN
    IF ~roles_required("admin", u) THEN Unauthorized(req) /\ UNCHANGED experiments
    ELSE /\ tablesExist' = FALSE
         /\ reports' = <<>> /\ networks' = <<>> /\ projects' = <<>> /\ queries' = <<>>
         /\ experiments' = <<>>
         /\ cache' = {}
         /\ last' = Handled(req, "200", [message |-> "nuked the database"],
                            <<"drop_all", "drop_all", "api.clear">>)
         /\ UNCHANGED <<mailConfigured, queue, sessionPending, enriched, taskQueue>>

\* current_app.celery.send_task('parse-url', args=[url]) of the two ensure routes
SendParseUrl(req, url, message) ==
    /\ Len(taskQueue) < MaxTasks
    /\ taskQueue' = Append(taskQueue, [name |-> "parse-url", args |-> <<url>>])
    /\ last' = Handled(req, "200", [message |-> message], <<"send_task">>)
    /\ UNCHANGED <<reports, networks, mailConfigured, queue, projects, queries,
                   cache, tablesExist, sessionPending, enriched>>

\* /admin/ensure/simple
ensure_simple(u) ==
    LET req == Request("ensure_simple", u, "/admin/ensure/simple") IN
    IF ~roles_required("admin", u) THEN Unauthorized(req)
    ELSE SendParseUrl(req, TEST_BEL_URL, "Queued task to parse PyBEL Test 1")

\* /admin/ensure/gfam
ensure_gfam(u) ==
    LET req == Request("ensure_gfam", u, "/admin/ensure/gfam") IN
    IF ~roles_required("admin", u) THEN Unauthorized(req)
    ELSE SendParseUrl(req, GENE_FAMILIES, "Queued task to parse HGNC Gene Families")

AdminHandlers ==
    {"run_reload", "rollback", "run_enrich_authors", "nuke", "ensure_simple", "ensure_gfam"}

Reload == \E u \in Requesters : run_reload(u) /\ UNCHANGED <<taskVars, extVars>>
Rollback == \E u \in Requesters : rollback(u) /\ UNCHANGED <<taskVars, extVars>>
EnrichAuthors == \E u \in Requesters : run_enrich_authors(u) /\ UNCHANGED <<taskVars, extVars>>
Nuke == \E u \in Requesters : nuke(u) /\ UNCHANGED <<files, uuids, extVars>>
EnsureSimple == \E u \in Requesters : ensure_simple(u) /\ UNCHANGED <<taskVars, extVars>>
EnsureGfam == \E u \in Requesters : ensure_gfam(u) /\ UNCHANGED <<taskVars, extVars>>

\* A running application: some networks stored, the API cache preloaded or not
\* (PYBEL_DS_PRELOAD), the session clean or left with a failed transaction
InitAdmin ==
    /\ \E o \in [1..NumNetworks -> NetworkOrigins \ {[user |-> None, public |-> FALSE]}] :
            /\ reports = ReportsOf(o)
            /\ networks = NetworksOf(o, [i \in 1..NumNetworks |-> {}])
    /\ projects = <<>>
    /\ mailConfigured = FALSE
    /\ queue = <<>>
    /\ last = NoRun
    /\ queries = <<>>
    /\ cache \in {{}, 1..NumNetworks}
    /\ tablesExist = TRUE
    /\ sessionPending \in BOOLEAN
    /\ enriched = FALSE
    /\ taskQueue = <<>>
    /\ NoTaskState
    /\ Initialised

NextAdmin == Reload \/ Rollback \/ EnrichAuthors \/ Nuke \/ EnsureSimple \/ EnsureGfam

SpecAdmin == InitAdmin /\ [][NextAdmin]_vars

----------------------------------------------------------------------------
(* main_service.build_main_service: the network routes *)

\* utils.get_network_ids_with_permission_helper(current_user, manager): the
\* public networks for everybody, every network for an admin, and for another
\* logged-in user also the networks owned by or shared with the user and, for a
\* scai user, those owned by scai users
get_network_ids_with_permission_helper(u) ==
    IF ~is_authenticated(u) THEN iter_public_networks
    ELSE IF is_admin(u) THEN DOMAIN networks
    ELSE iter_public_networks \cup get_owned_networks(u) \cup get_shared_networks(u)
         \cup (IF is_scai(u) THEN UNION { get_owned_networks(x) : x \in scai_users } ELSE {})

\* abort(403, 'Insufficient rights for network {}'.format(network_id)), answered
\* by forbidden_error with the 403 page
Forbidden(req, network_id) ==
    /\ last' = Handled(req, "403",
                       [description |-> <<"Insufficient rights for network ",
                                          ToString(network_id)>>,
                        template |-> "403.html"], <<>>)
    /\ UNCHANGED <<reports, networks, mailConfigured, queue, projects, appVars>>

\* Query.from_query_args(manager, network_id, current_user)
from_query_args(network_id, u) ==
    [user |-> u, network_ids |-> {network_id}, seeding |-> <<>>]

\* Mutant of view_explore_network: the permission check is missing
view_explore_network_Unchecked(u, network_id) ==
    /\ Len(queries) < MaxQueries
    /\ queries' = Append(queries, from_query_args(network_id, u))
    /\ last' = Handled(Request("view_explore_network", u, network_id), "302",
                       [redirect |-> "view_explorer_query", query_id |-> Len(queries) + 1],
                       <<"session.add", "session.commit">>)
    /\ UNCHANGED <<reports, networks, mailConfigured, queue, projects,
                   cache, tablesExist, sessionPending, enriched, taskQueue>>

\* /network/<int:network_id>/explore
view_explore_network(u, network_id) ==
    LET req == Request("view_explore_network", u, network_id) IN
    IF network_id \notin get_network_ids_with_permission_helper(u)
    THEN Forbidden(req, network_id)
    ELSE /\ Len(queries) < MaxQueries
         /\ \E committed \in BOOLEAN :
              IF committed
              THEN /\ queries' = Append(queries, from_query_args(network_id, u))
                   /\ last' = Handled(req, "302",
                                [redirect |-> "view_explorer_query",
                                 query_id |-> Len(queries) + 1],
                                <<"session.add", "session.commit">>)
                   /\ UNCHANGED sessionPending
              ELSE /\ sessionPending' = TRUE
                   /\ last' = internal_server_error(req, "SQLAlchemyError",
                                        <<"session.add", "session.commit">>)
                   /\ UNCHANGED queries
         /\ UNCHANGED <<reports, networks, mailConfigured, queue, projects,
                        cache, tablesExist, enriched, taskQueue>>

\* /summary/<int:network_id>
view_summary(u, network_id) ==
    LET req == Request("view_summary", u, network_id) IN
    IF network_id \notin get_network_ids_with_permission_helper(u)
    THEN Forbidden(req, network_id)
    ELSE /\ \E loaded \in BOOLEAN :
              last' = IF loaded
                      THEN Handled(req, "200", [summary |-> network_id],
                                   <<"get_network_by_id", "from_bytes">>)
                      ELSE Handled(req, "302", [redirect |-> "view_networks",
                                                flash |-> "Problem getting graph"],
                                   <<"get_network_by_id", "from_bytes">>)
         /\ UNCHANGED <<reports, networks, mailConfigured, queue, projects, appVars>>

ExploreNetwork ==
    \E u \in Requesters, network_id \in 1..(NumNetworks + 1) :
        view_explore_network(u, network_id) /\ UNCHANGED <<taskVars, extVars>>

Summary ==
    \E u \in Requesters, network_id \in 1..(NumNetworks + 1) :
        view_summary(u, network_id) /\ UNCHANGED <<taskVars, extVars>>

\* Some networks stored: the odd ones uploaded by a plain user or by an admin
\* and kept private, the even ones uploaded and made public or stored without a
\* report; the first of them shared with a user or not
MainOrigins(i) ==
    IF i % 2 = 1
    THEN {[user |-> "alice", public |-> FALSE], [user |-> "charlie", public |-> FALSE]}
    ELSE {[user |-> "test", public |-> TRUE], [user |-> None, public |-> FALSE]}

InitMain ==
    /\ \E o \in [1..NumNetworks -> NetworkOrigins], shared \in {{}, {"alice"}} :
            /\ \A i \in 1..NumNetworks : o[i] \in MainOrigins(i)
            /\ reports = ReportsOf(o)
            /\ networks = NetworksOf(o, [i \in 1..NumNetworks |->
                                            IF i = 1 THEN shared ELSE {}])
    /\ projects = <<>>
    /\ mailConfigured = FALSE
    /\ queue = <<>>
    /\ last = NoRun
    /\ AppStarted

NextMain == ExploreNetwork \/ Summary

SpecMain == InitMain /\ [][NextMain]_vars

----------------------------------------------------------------------------
(* main_service.build_main_service: the routes that build a query *)

\* Query.from_query(manager, q, current_user): the row of the query q for the user
from_query(q, u) ==
    [user |-> u, network_ids |-> q.network_ids, seeding |-> q.seeding]

\* session.add(query); session.commit(); redirect to the explorer of the query.
\* The commit stores the query, or raises and leaves the transaction open.
PersistQuery(req, row) ==
    /\ Len(queries) < MaxQueries
    /\ \E committed \in BOOLEAN :
         IF committed
         THEN /\ queries' = Append(queries, row)
              /\ last' = Handled(req, "302",
                                 [redirect |-> "view_explorer_query",
                                  query_id |-> Len(queries) + 1],
                                 <<"session.add", "session.commit">>)
              /\ UNCHANGED sessionPending
         ELSE /\ sessionPending' = TRUE
              /\ last' = internal_server_error(req, "SQLAlchemyError",
                                               <<"session.add", "session.commit">>)
              /\ UNCHANGED queries

\* /project/<int:project_id>/explore, behind login_required
view_explore_project(u, project_id) ==
    LET req == Request("view_explore_project", u, project_id) IN
    IF ~is_authenticated(u)
    THEN /\ last' = Handled(req, "302", [redirect |-> "security.login"], <<>>)
         /\ UNCHANGED <<queries, sessionPending>>
    ELSE IF project_id \notin DOMAIN projects
    THEN \* project is None: project.networks
         /\ last' = internal_server_error(req, "AttributeError", <<>>)
         /\ UNCHANGED <<queries, sessionPending>>
    ELSE PersistQuery(req, from_query([network_ids |-> projects[project_id].networks,
                                       seeding |-> <<>>], u))

\* The node hashes a request can carry (request.args.getlist('nodes'))
NodeLists == {<<>>, <<"hash1">>}

\* /network/<int:network_id>/induction-query/
build_summary_link_query(u, network_id, nodes) ==
    LET req == Request("build_summary_link_query", u,
                       [network_id |-> network_id, nodes |-> nodes])
    IN  PersistQuery(req, from_query([network_ids |-> {network_id},
                                      seeding |-> <<"induction", nodes>>], u))

ExploreProject ==
    \E u \in Requesters, project_id \in 1..(NumProjects + 1) :
        /\ view_explore_project(u, project_id)
        /\ UNCHANGED <<reports, networks, mailConfigured, queue, projects,
                       cache, tablesExist, enriched, taskQueue, taskVars, extVars>>

SummaryLinkQuery ==
    \E u \in Requesters, network_id \in 1..(NumNetworks + 1), nodes \in NodeLists :
        /\ build_summary_link_query(u, network_id, nodes)
        /\ UNCHANGED <<reports, networks, mailConfigured, queue, projects,
                       cache, tablesExist, enriched, taskQueue, taskVars, extVars>>

\* The odd networks uploaded by an admin and kept private, the even ones
\* uploaded by test and made public; the odd projects are alice's, the even ones
\* test's, each over the first network
InitQuery ==
    /\ LET o == [i \in 1..NumNetworks |->
                    IF i % 2 = 1 THEN [user |-> "charlie", public |-> FALSE]
                    ELSE [user |-> "test", public |-> TRUE]]
       IN  /\ reports = ReportsOf(o)
           /\ networks = NetworksOf(o, [i \in 1..NumNetworks |-> {}])
    /\ projects = [p \in 1..NumProjects |->
                      [users |-> {IF p % 2 = 1 THEN "alice" ELSE "test"}, networks |-> {1}]]
    /\ mailConfigured = FALSE
    /\ queue = <<>>
    /\ last = NoRun
    /\ AppStarted

NextQuery == ExploreNetwork \/ ExploreProject \/ SummaryLinkQuery

SpecQuery == InitQuery /\ [][NextQuery]_vars

----------------------------------------------------------------------------
(* celery_worker.run_cmpa *)

\* The record of a task run: its arguments, what the libraries answered
\* (draws), how it ended, what it returned or raised, its calls on the session
\* and the mails it sent
TaskRun(task, args, draws, state, ret, calls, mails) ==
    [task |-> task, args |-> args, draws |-> draws, state |-> state, ret |-> ret,
     calls |-> calls, mails |-> mails]

\* What calculate_scores(graph, data, experiment.permutations) returns
Scores == {"scores1", "scores2"}

\* six.moves.cPickle.dumps(scores)
dumps(scores) == <<"pickle", scores>>

\* experiment.result is None until run_cmpa sets it
NoResult == <<>>

\* 'Experiment {} on query {} with {} has completed'
CmpaMessage(experiment_id, e) ==
    <<"Experiment ", ToString(experiment_id), " on query ", ToString(e.query_id),
      " with ", e.source_name, " has completed">>

\* The mail of run_cmpa, sent only if the mail extension is configured
CmpaMails(experiment_id, e) ==
    IF mailConfigured
    THEN << [subject |-> "CMPA Analysis complete", recipients |-> {Email(e.user)},
             body |-> CmpaMessage(experiment_id, e), sender |-> pbw_sender] >>
    ELSE <<>>

\* run_cmpa(experiment_id).  The experiment's attributes are read for the
\* message after session.commit() and session.close(): with a session that
\* expires its rows on commit (expired) the read of the detached row raises,
\* with one that does not the values are read.
run_cmpa(experiment_id) ==
    IF experiment_id \notin DOMAIN experiments
    THEN /\ last' = TaskRun("run_cmpa", experiment_id, Unused, "raised",
                            <<"AttributeError">>, <<>>, <<>>)
         /\ UNCHANGED experiments
    ELSE \E scores \in Scores, committed \in BOOLEAN :
           LET e == experiments[experiment_id] IN
           IF ~committed
           THEN /\ last' = TaskRun("run_cmpa", experiment_id,
                                   [scores |-> scores, committed |-> FALSE, expired |-> FALSE],
                                   "returned", IntValue(-1),
                                   <<"session.commit", "session.rollback", "session.close">>,
                                   <<>>)
                /\ UNCHANGED experiments
           ELSE /\ experiments' = [experiments EXCEPT
                                      ![experiment_id].result = dumps(scores),
                                      ![experiment_id].completed = TRUE]
                /\ \E expired \in BOOLEAN :
                     last' = IF expired
                             THEN TaskRun("run_cmpa", experiment_id,
                                          [scores |-> scores, committed |-> TRUE,
                                           expired |-> TRUE],
                                          "raised", <<"DetachedInstanceError">>,
                                          <<"session.commit", "session.close">>, <<>>)
                             ELSE TaskRun("run_cmpa", experiment_id,
                                          [scores |-> scores, committed |-> TRUE,
                                           expired |-> FALSE],
                                          "returned", IntValue(experiment_id),
                                          <<"session.commit", "session.close">>,
                                          CmpaMails(experiment_id, e))

RunCmpa ==
    \E experiment_id \in 1..(NumExperiments + 1) :
        /\ run_cmpa(experiment_id)
        /\ UNCHANGED <<reports, networks, mailConfigured, queue, projects, appVars,
                       files, uuids, extVars>>

\* Experiments as the upload form creates them: a user, a query, a source
InitCmpa ==
    /\ experiments \in [1..NumExperiments ->
          { [user |-> u, query_id |-> 1, source_name |-> "data.csv",
             completed |-> FALSE, result |-> NoResult] : u \in Users }]
    /\ files = {} /\ uuids = 0
    /\ reports = <<>> /\ networks = <<>> /\ projects = <<>>
    /\ mailConfigured \in BOOLEAN
    /\ queue = <<>>
    /\ last = NoRun
    /\ queries = << [user |-> "alice", network_ids |-> {}, seeding |-> <<>>] >>
    /\ cache = {} /\ tablesExist = TRUE /\ sessionPending = FALSE
    /\ enriched = FALSE /\ taskQueue = <<>>
    /\ Initialised

NextCmpa == RunCmpa

SpecCmpa == InitCmpa /\ [][NextCmpa]_vars

----------------------------------------------------------------------------
(* celery_worker.merge_project *)

\* pybel.constants.PYBEL_DATA_DIR
PYBEL_DATA_DIR == "~/.pybel/data"

\* The n-th value of uuid.uuid4(): every call gives a value not given before
uuid4(n) == <<"uuid4", ToString(n)>>

\* project.name
ProjectName(project_id) == <<"project ", ToString(project_id)>>

\* network.as_bel(): the graph unpickled from the network's blob
as_bel(network) ==
    [name |-> network.name, version |-> network.version, content |-> {network.blob[3]}]

\* pybel.struct.union(graphs): the statements of all the graphs
union(graphs) ==
    [name |-> None, version |-> None, content |-> UNION { g.content : g \in graphs }]

\* pybel.to_bel_lines(graph), joined: the BEL script of the graph
to_bel_lines(graph) == <<"BEL", graph.name, graph.version, graph.content>>

\* The mail of merge_project with the script attached
MergeMail(user_id, project_id, graph) ==
    [subject |-> <<"Merged ", ProjectName(project_id), " BEL">>,
     recipients |-> {Email(user_id)},
     body |-> <<"The BEL documents from ", ProjectName(project_id),
                " were merged. The resulting BEL script is attached">>,
     sender |-> pbw_sender,
     attachments |-> << [filename |-> "merged.bel", content_type |-> "text/plain",
                         data |-> to_bel_lines(graph)] >>]

\* Mutant of merge_project: the file is written whether mail is configured or not
merge_project_AlwaysWrites(user_id, project_id) ==
    IF project_id \notin DOMAIN projects \/ projects[project_id].networks = {}
    THEN /\ last' = TaskRun("merge_project", <<user_id, project_id>>, Unused, "raised",
                            <<"Exception">>, <<>>, <<>>)
         /\ UNCHANGED <<files, uuids>>
    ELSE LET merged == union({ as_bel(networks[n]) : n \in projects[project_id].networks })
             graph == [merged EXCEPT !.name = uuid4(uuids + 1), !.version = "1.0.0"]
             path == <<PYBEL_DATA_DIR, "/", graph.name, ".bel">>
         IN /\ uuids < MaxUuids
            /\ uuids' = uuids + 1
            /\ files' = files \cup {[path |-> path, graph |-> graph]}
            /\ last' = IF mailConfigured /\ user_id \in Users
                       THEN TaskRun("merge_project", <<user_id, project_id>>,
                                    [graph |-> graph], "returned", IntValue(1), <<>>,
                                    << MergeMail(user_id, project_id, graph) >>)
                       ELSE TaskRun("merge_project", <<user_id, project_id>>,
                                    [graph |-> graph], "returned", <<"None">>, <<>>, <<>>)

\* merge_project(user_id, project_id)
merge_project(user_id, project_id) ==
    IF project_id \notin DOMAIN projects
    THEN \* project is None: project.networks
         /\ last' = TaskRun("merge_project", <<user_id, project_id>>, Unused, "raised",
                            <<"AttributeError">>, <<>>, <<>>)
         /\ UNCHANGED <<files, uuids>>
    ELSE IF projects[project_id].networks = {}
    THEN \* union of no graphs
         /\ last' = TaskRun("merge_project", <<user_id, project_id>>, Unused, "raised",
                            <<"union of no graphs">>, <<>>, <<>>)
         /\ UNCHANGED <<files, uuids>>
    ELSE LET merged == union({ as_bel(networks[n]) : n \in projects[project_id].networks })
             graph == [merged EXCEPT !.name = uuid4(uuids + 1), !.version = "1.0.0"]
             path == <<PYBEL_DATA_DIR, "/", graph.name, ".bel">>
         IN /\ uuids < MaxUuids
            /\ uuids' = uuids + 1
            /\ IF ~mailConfigured
               THEN /\ files' = files \cup {[path |-> path, graph |-> graph]}
                    /\ last' = TaskRun("merge_project", <<user_id, project_id>>,
                                       [graph |-> graph], "returned", <<"None">>, <<>>, <<>>)
               ELSE /\ UNCHANGED files
                    /\ last' = IF user_id \in Users
                               THEN TaskRun("merge_project", <<user_id, project_id>>,
                                            [graph |-> graph], "returned", IntValue(1), <<>>,
                                            << MergeMail(user_id, project_id, graph) >>)
                               ELSE \* user is None: user.email
                                    TaskRun("merge_project", <<user_id, project_id>>,
                                            [graph |-> graph], "raised",
                                            <<"AttributeError">>, <<>>, <<>>)

\* The user ids a merge can be asked for: those of the users, and one of no user
UserIds == Users \cup {"nobody"}

MergeProject ==
    \E user_id \in UserIds, project_id \in 1..(NumProjects + 1) :
        /\ merge_project(user_id, project_id)
        /\ UNCHANGED <<reports, networks, mailConfigured, queue, projects, appVars,
                       experiments, extVars>>

\* Some networks stored, and projects over some of them or over none
InitMerge ==
    /\ \E o \in [1..NumNetworks -> {[user |-> "alice", public |-> FALSE]}] :
            /\ reports = ReportsOf(o)
            /\ networks = [i \in 1..NumNetworks |->
                              [name |-> NetworkName(i), version |-> ToString(i),
                               blob |-> <<"pickle", "BELGraph",
                                          IF i % 2 = 1 THEN "c1" ELSE "c2">>,
                               users |-> {}]]
    /\ projects \in [1..NumProjects ->
                        { [users |-> {"alice"}, networks |-> ns] : ns \in SUBSET (1..NumNetworks) }]
    /\ mailConfigured \in BOOLEAN
    /\ queue = <<>>
    /\ last = NoRun
    /\ AppStarted

NextMerge == MergeProject

SpecMerge == InitMerge /\ [][NextMerge]_vars

----------------------------------------------------------------------------
(* celery_worker.parse_by_url and the registered task names *)

\* The names the functions of celery_worker.py are registered under
\* (@celery.task(name=...))
RegisteredTasks ==
    [n \in {"parse-aetionomy", "parse-selventa", "parse-bel4imocede", "parse-ptsd",
            "parse-tbi", "parse-bms", "parse-url", "pybelparser", "merge-project",
            "run-cmpa"} |->
        CASE n = "parse-aetionomy" -> "parse_aetionomy"
          [] n = "parse-selventa" -> "parse_selventa"
          [] n = "parse-bel4imocede" -> "parse_bel4imocede"
          [] n = "parse-ptsd" -> "parse_ptsd"
          [] n = "parse-tbi" -> "parse_tbi"
          [] n = "parse-bms" -> "parse_bms"
          [] n = "parse-url" -> "parse_by_url"
          [] n = "pybelparser" -> "async_parser"
          [] n = "merge-project" -> "merge_project"
          [] OTHER -> "run_cmpa"]

\* The graph pybel.from_url(url) gives when it parses the resource
UrlGraph(url) ==
    [name |-> IF url = TEST_BEL_URL THEN <<"T", "e", "s", "t">> ELSE <<"H", "G", "N", "C">>,
     version |-> "1.0.0", content |-> url]

\* Mutant of parse_by_url: a failed insertion is reported as a parse failure
parse_by_url_OneMessage(url) ==
    \E parsed \in BOOLEAN, io \in InsertOutcomes :
        LET graph == UrlGraph(url)
            found == LookupNetwork(networks, graph.name, graph.version)
        IN  IF ~parsed \/ io # "ok"
            THEN /\ last' = TaskRun("parse_by_url", url, [parsed |-> parsed, io |-> io],
                                    "returned", <<"Parsing failed for ", url, ". ">>,
                                    <<"from_url">>, <<>>)
                 /\ UNCHANGED networks
            ELSE /\ networks' = IF found # 0 THEN networks
                                ELSE Append(networks,
                                        [name |-> graph.name, version |-> graph.version,
                                         blob |-> to_bytes(graph), users |-> {}])
                 /\ last' = TaskRun("parse_by_url", url, [parsed |-> TRUE, io |-> io],
                                    "returned",
                                    IntValue(IF found # 0 THEN found ELSE Len(networks) + 1),
                                    <<"from_url", "insert_graph", "session.close">>, <<>>)

\* parse_by_url(url).  insert_graph of a graph whose name and version are
\* stored already gives the stored network or raises.
parse_by_url(url) ==
    \E parsed \in BOOLEAN :
        IF ~parsed
        THEN /\ last' = TaskRun("parse_by_url", url, [parsed |-> FALSE, io |-> Unused],
                                "returned", <<"Parsing failed for ", url, ". ">>,
                                <<"from_url">>, <<>>)
             /\ UNCHANGED networks
        ELSE \E io \in InsertOutcomes :
               LET graph == UrlGraph(url)
                   found == LookupNetwork(networks, graph.name, graph.version)
               IN  IF io = "ok"
                   THEN /\ networks' =
                              IF found # 0 THEN networks
                              ELSE Append(networks,
                                      [name |-> graph.name, version |-> graph.version,
                                       blob |-> to_bytes(graph), users |-> {}])
                        /\ last' = TaskRun("parse_by_url", url, [parsed |-> TRUE, io |-> io],
                                      "returned",
                                      IntValue(IF found # 0 THEN found ELSE Len(networks) + 1),
                                      <<"from_url", "insert_graph", "session.close">>, <<>>)
                   ELSE /\ last' = TaskRun("parse_by_url", url, [parsed |-> TRUE, io |-> io],
                                      "returned", <<"Inserting failed for ", url>>,
                                      <<"from_url", "insert_graph", "session.rollback",
                                        "session.close">>, <<>>)
                        /\ UNCHANGED networks

\* The worker takes the oldest task sent by name and runs the function
\* registered under that name
ParseUrlTask ==
    /\ taskQueue # <<>>
    /\ Head(taskQueue).name \in DOMAIN RegisteredTasks
    /\ RegisteredTasks[Head(taskQueue).name] = "parse_by_url"
    /\ parse_by_url(Head(taskQueue).args[1])
    /\ taskQueue' = Tail(taskQueue)
    /\ UNCHANGED <<reports, mailConfigured, queue, projects, queries, cache, tablesExist,
                   sessionPending, enriched, taskVars, extVars>>

\* A running application with a worker: a network stored or none
InitParseUrl ==
    /\ \E n \in 0..1 :
         LET o == [i \in 1..n |-> [user |-> "alice", public |-> FALSE]] IN
            /\ reports = ReportsOf(o)
            /\ networks = NetworksOf(o, [i \in 1..n |-> {}])
    /\ projects = <<>>
    /\ mailConfigured \in BOOLEAN
    /\ queue = <<>>
    /\ last = NoRun
    /\ AppStarted

NextParseUrl == EnsureSimple \/ EnsureGfam \/ ParseUrlTask

SpecParseUrl == InitParseUrl /\ [][NextParseUrl]_vars

----------------------------------------------------------------------------
(* application_utils.FlaskPyBEL: init_app, get_state and the accessors *)

NoneObject == <<"None">>

\* The managers an application can be given
Managers == {<<"Manager", "1">>, <<"Manager", "2">>}

\* The k-th FlaskPyBEL object
FlaskPyBELObject(k) == <<"FlaskPyBEL", ToString(k)>>

\* FlaskPyBEL.__init__ before init_app: every attribute but app is None
Constructed ==
    [manager |-> NoneObject, sentry |-> NoneObject, api |-> NoneObject,
     user_datastore |-> NoneObject, inits |-> 0]

\* self.init_app(app, manager) on the k-th object of rows: the objects and the
\* registration after it and how it ended.  With no manager, the read of
\* self.manager.engine raises before the tables and api are created and before
\* the object is stored in app.extensions.
init_app(rows, k, manager) ==
    LET n == rows[k].inits + 1
        made == CreatedBy(k, n)
    IN  IF manager = NoneObject
        THEN [instances |-> [rows EXCEPT ![k].manager = manager, ![k].sentry = made.sentry,
                                         ![k].inits = n],
              pbw |-> pbw, state |-> "raised", ret |-> <<"AttributeError">>]
        ELSE [instances |-> [rows EXCEPT ![k].manager = manager, ![k].sentry = made.sentry,
                                         ![k].api = made.api,
                                         ![k].user_datastore = made.user_datastore,
                                         ![k].inits = n],
              pbw |-> k, state |-> "returned", ret |-> NoneObject]

\* Base.metadata.create_all() in its try block: the tables are created, or the
\* failure is logged and init_app goes on
create_all == \E created \in BOOLEAN : tablesExist' = (tablesExist \/ created)

\* FlaskPyBEL(app, manager), FlaskPyBEL(app) and FlaskPyBEL()
Construct ==
    \E withApp \in BOOLEAN, manager \in Managers \cup {NoneObject} :
        LET k == Len(instances) + 1
            rows == Append(instances, Constructed)
        IN  /\ Len(instances) < MaxInstances
            /\ IF withApp /\ manager # NoneObject
               THEN LET r == init_app(rows, k, manager) IN
                    /\ instances' = r.instances
                    /\ pbw' = r.pbw
                    /\ create_all
                    /\ last' = TaskRun("__init__", [self |-> k, manager |-> manager],
                                       Unused, r.state, FlaskPyBELObject(k), <<>>, <<>>)
               ELSE /\ instances' = rows
                    /\ UNCHANGED <<pbw, tablesExist>>
                    /\ last' = TaskRun("__init__", [self |-> k, manager |-> NoneObject],
                                       Unused, "returned", FlaskPyBELObject(k), <<>>, <<>>)
            /\ UNCHANGED <<reports, networks, mailConfigured, queue, projects, queries,
                           cache, sessionPending, enriched, taskQueue, taskVars>>

\* pbw.init_app(app, manager) on a constructed object
InitApp ==
    \E k \in DOMAIN instances, manager \in Managers \cup {NoneObject} :
        LET r == init_app(instances, k, manager) IN
        /\ instances[k].inits < MaxInits
        /\ instances' = r.instances
        /\ pbw' = r.pbw
        /\ IF manager = NoneObject THEN UNCHANGED tablesExist ELSE create_all
        /\ last' = TaskRun("init_app", [self |-> k, manager |-> manager],
                           Unused, r.state, r.ret, <<>>, <<>>)
        /\ UNCHANGED <<reports, networks, mailConfigured, queue, projects, queries,
                       cache, sessionPending, enriched, taskQueue, taskVars>>

\* Mutant of get_state: the object constructed first, whatever is registered
get_state_First ==
    IF instances = <<>>
    THEN [state |-> "raised",
          ret |-> <<"ValueError", "FlaskPyBEL has not been instantiated">>]
    ELSE [state |-> "returned", self |-> 1]

\* FlaskPyBEL.get_state(app): how it ends, and the object it returns
get_state ==
    IF pbw = 0
    THEN [state |-> "raised",
          ret |-> <<"ValueError", "FlaskPyBEL has not been instantiated">>]
    ELSE [state |-> "returned", self |-> pbw]

Accessors == {"get_state", "get_sentry", "get_user_datastore", "get_api", "get_manager"}

\* get_sentry(app), get_user_datastore(app), get_api(app), get_manager(app):
\* the attribute of get_state(app)
Accessor(name) ==
    LET s == get_state IN
    IF s.state = "raised"
    THEN TaskRun(name, "app", Unused, "raised", s.ret, <<>>, <<>>)
    ELSE TaskRun(name, "app", Unused, "returned",
                 CASE name = "get_state" -> FlaskPyBELObject(s.self)
                   [] name = "get_sentry" -> instances[s.self].sentry
                   [] name = "get_user_datastore" -> instances[s.self].user_datastore
                   [] name = "get_api" -> instances[s.self].api
                   [] OTHER -> instances[s.self].manager,
                 <<>>, <<>>)

Access ==
    \E name \in Accessors :
        /\ last' = Accessor(name)
        /\ UNCHANGED <<reports, networks, mailConfigured, queue, projects, appVars,
                       taskVars, extVars>>

\* A Flask application on which nothing has been initialised
InitExt ==
    /\ instances = <<>>
    /\ pbw = 0
    /\ reports = <<>> /\ networks = <<>> /\ projects = <<>>
    /\ mailConfigured = FALSE
    /\ queue = <<>>
    /\ last = NoRun
    /\ queries = <<>> /\ cache = {} /\ tablesExist = FALSE
    /\ sessionPending = FALSE /\ enriched = FALSE /\ taskQueue = <<>>
    /\ NoTaskState

NextExt == Construct \/ InitApp \/ Access

SpecExt == InitExt /\ [][NextExt]_vars

----------------------------------------------------------------------------
(* Properties of async_parser *)

\* The last step was a run of async_parser on a report of the table
RunOnReport == last.task = "async_parser" /\ last.report_id \in DOMAIN reports

\* ... that ended by returning
RunReturned == RunOnReport /\ last.state = "returned"

\* ... and got a graph from the parser
RunParsed == RunOnReport /\ ~last.po.raises

\* ... whose name and version are those of a network stored before the run:
\* the lookup was made and nothing was inserted
RunFoundDuplicate ==
    /\ RunParsed
    /\ \E i \in DOMAIN last.calls : last.calls[i] = "query(Network)"
    /\ \A i \in DOMAIN last.calls : last.calls[i] # "insert_graph"
    /\ LookupNetwork(networks, last.po.graph.name, last.po.graph.version) # 0

DuplicateId == LookupNetwork(networks, last.po.graph.name, last.po.graph.version)

RunOwner == reports[last.report_id].user

\* The stored network has a report, and it belongs to another user / the same user
DuplicateOfOtherUser ==
    /\ RunFoundDuplicate
    /\ NetworkReport(reports, DuplicateId) # 0
    /\ reports[NetworkReport(reports, DuplicateId)].user # RunOwner

DuplicateOfSameUser ==
    /\ RunFoundDuplicate
    /\ NetworkReport(reports, DuplicateId) # 0
    /\ reports[NetworkReport(reports, DuplicateId)].user = RunOwner

IsEspionageNotice(m) ==
    /\ m.subject = <<"Possible attempted Espionage">>
    /\ m.recipients = {CHARLIE_EMAIL, DANIEL_EMAIL}

\* C1: every run of async_parser on an existing report that returns leaves the
\* outcome on the report: report.message is committed and equal to the returned
\* string, or the report is filled out and committed for the stored network whose
\* id is returned; no stored network is left with a report that has neither.
C1_OutcomeRecorded ==
    RunReturned =>
        LET rep == reports[last.report_id] IN
        \/ rep.message # NoMessage /\ rep.message = last.ret
        \/ /\ rep.completed
           /\ rep.network \in DOMAIN networks
           /\ last.ret = IntValue(rep.network)

\* C2: an exception raised by the parser is mapped to one message by its type
\* (connection error, then inconsistent definition, then anything else); the task
\* returns that message, stores it in report.message, uses the subject
\* 'Parsing Failed for <source_name>' and reaches neither the network lookup nor
\* insert_graph.
C2_ParseFailure ==
    (RunOnReport /\ last.po.raises) =>
        LET e == last.po.exc
            source_name == reports[last.report_id].source_name
            conn == "ConnectionError" \in e.types
            incons == "InconsistentDefinitionError" \in e.types
        IN  /\ last.state = "returned"
            /\ conn => last.ret = <<"Connection to resource could not be established.">>
            /\ (~conn /\ incons) =>
                  /\ Len(last.ret) = 7
                  /\ last.ret[3] = " because " /\ last.ret[4] = e.definition
                  /\ last.ret[5] = " was redefined on line " /\ last.ret[6] = e.line_number
            /\ (~conn /\ ~incons) =>
                  /\ Len(last.ret) = 4
                  /\ last.ret[3] = " from a general error: " /\ last.ret[4] = e.text
            /\ reports[last.report_id].message = last.ret
            /\ last.subject = <<"Parsing Failed for ", source_name>>
            /\ \A i \in DOMAIN last.calls :
                  last.calls[i] \notin {"query(Network)", "insert_graph"}

C2_Witness ==
    /\ RunOnReport /\ last.po.raises
    /\ "InconsistentDefinitionError" \in last.po.exc.types
    /\ last.state = "returned"
    /\ last.ret[5] = " was redefined on line "
    /\ reports[last.report_id].message = last.ret

\* C3: for a duplicate of another user's network, rights are granted exactly when
\* the content hash of the uploaded graph equals that of the stored network; when
\* the hashes differ no rights are granted, the admins get the espionage notice
\* and the upload fails with the integrity message.
C3_GrantIffSameContent ==
    DuplicateOfOtherUser =>
        LET graph == last.po.graph
            network == networks[DuplicateId]
            same == Sha1Hex(to_bytes(graph)) = Sha1Hex(network.blob)
        IN  /\ (RunOwner \in network.users) <=> same
            /\ ~same =>
                  /\ RunOwner \notin network.users
                  /\ \E i \in DOMAIN last.mails : IsEspionageNotice(last.mails[i])
                  /\ last.state = "returned"
                  /\ last.ret = integrity_message(graph.name, graph.version)

----------------------------------------------------------------------------
(* Properties of the views and routes *)

\* The last step was a request for a view built on ModelView
ModelViewRequested ==
    /\ last.task = "request" /\ last.handler = "admin_view"
    /\ last.args.class = "ModelView"

\* C6: a view built on ModelView is served exactly to an authenticated admin;
\* every other requester is redirected to the login page with next=<requested URL>.
C6_ModelViewAdminOnly ==
    ModelViewRequested =>
        LET u == last.user
            admin == u # Anonymous /\ "admin" \in Roles(u)
        IN  /\ (last.status = "200") <=> admin
            /\ admin => last.body = [served |-> last.args.model]
            /\ ~admin =>
                  /\ last.status = "302"
                  /\ last.body.redirect \in {"security.login", "login"}
                  /\ last.body.next = <<"/admin/", last.args.model>>

C6_Witness ==
    /\ ModelViewRequested
    /\ last.user = "alice" /\ last.args.model = "Network"
    /\ last.status = "302"
    /\ last.body.next = <<"/admin/", "Network">>

\* The last step served a ProjectView to a logged-in user
ProjectViewServed ==
    /\ last.task = "request" /\ last.handler = "admin_view"
    /\ last.args.class = "ProjectView"
    /\ last.user # Anonymous
    /\ last.status = "200"

NetworksLookedUp == last.task = "request" /\ last.handler = "ajax_lookup"

Owns(u, n) == \E r \in DOMAIN reports : reports[r].user = u /\ reports[r].network = n

IsPublic(n) == \E r \in DOMAIN reports : reports[r].network = n /\ reports[r].public

\* The networks a user who is not an admin may be given
MayBeGiven(u, n) ==
    \/ Owns(u, n)
    \/ u \in networks[n].users
    \/ IsPublic(n)
    \/ "scai" \in Roles(u) /\ \E x \in Users : "scai" \in Roles(x) /\ Owns(x, n)

Elements(rows) == { rows[i] : i \in DOMAIN rows }

\* C8: get_list gives a user who is not an admin only networks the user owns, is
\* shared, that are public or (for a scai user) owned by a scai user, and nothing
\* when there is no such network; it gives an admin the networks whose name
\* matches the term; the result is always within the offset/limit window.
C8_OnlyPermittedNetworks ==
    NetworksLookedUp =>
        LET u == last.user
            rows == last.body
            matching == { n \in DOMAIN networks : ilike(networks[n].name, last.args.term) }
        IN  /\ Len(rows) <= last.args.limit
            /\ Elements(rows) \subseteq matching
            /\ "admin" \notin Roles(u) =>
                  /\ \A n \in Elements(rows) : MayBeGiven(u, n)
                  /\ (\A n \in DOMAIN networks : ~MayBeGiven(u, n)) => rows = <<>>
            /\ "admin" \in Roles(u) =>
                  /\ Len(rows) + last.args.offset >= Cardinality(matching)
                        \/ Len(rows) = last.args.limit
                  /\ \A i, j \in DOMAIN rows : i < j => rows[i] < rows[j]
                  /\ \A n \in matching :
                        (Cardinality({ m \in matching : m < n }) \in
                            last.args.offset..(last.args.offset + last.args.limit - 1))
                        => n \in Elements(rows)

C8_Witness ==
    /\ NetworksLookedUp
    /\ last.user = "test" /\ last.args.module = "application_utils"
    /\ last.args.term = <<"a">>
    /\ last.body = <<1>>
    /\ Owns("charlie", 1) /\ ~IsPublic(1) /\ "test" \notin networks[1].users
    /\ ~ilike(networks[2].name, <<"a">>)

\* C9: a request to an /admin route by a user without the 'admin' role changes
\* nothing: no cache clear or reload, no rollback, no dropped table, no task sent.
C9_AdminRoutesNeedAdmin ==
    [][ ( /\ last'.task = "request"
          /\ last'.handler \in AdminHandlers
          /\ ~(last'.user # Anonymous /\ "admin" \in Roles(last'.user)) )
        => /\ last'.calls = <<>>
           /\ UNCHANGED <<reports, networks, projects, queries, cache, tablesExist,
                          sessionPending, enriched, taskQueue, experiments>> ]_vars

C9_Witness ==
    /\ last.task = "request" /\ last.handler = "nuke" /\ last.user = "test"
    /\ last.status = "403"
    /\ tablesExist /\ cache # {} /\ networks # <<>>

\* C10: a request to explore or summarise a network the current user has no
\* permission for is aborted with 403 'Insufficient rights for network <id>'; no
\* Query is added or committed and the network is not loaded.
C10_ForbiddenNetwork ==
    [][ ( /\ last'.task = "request"
          /\ last'.handler \in {"view_explore_network", "view_summary"}
          /\ last'.args \notin get_network_ids_with_permission_helper(last'.user) )
        => /\ last'.status = "403"
           /\ last'.body.description =
                 <<"Insufficient rights for network ", ToString(last'.args)>>
           /\ last'.calls = <<>>
           /\ queries' = queries
           /\ sessionPending' = sessionPending ]_vars

C10_Witness ==
    /\ last.task = "request" /\ last.handler = "view_explore_network"
    /\ last.user = "alice" /\ last.args = 1
    /\ Owns("charlie", 1)
    /\ last.status = "403"
    /\ queries = <<>>

\* C11: after an admin's request to /admin/nuke/ the tables of the schema have
\* been dropped and created again (they exist and are empty) and the API cache
\* has been cleared.
C11_NukeRecreates ==
    [][ ( /\ last'.task = "request"
          /\ last'.handler = "nuke"
          /\ roles_required("admin", last'.user) )
        => /\ tablesExist'
           /\ reports' = <<>> /\ networks' = <<>> /\ projects' = <<>> /\ queries' = <<>>
           /\ experiments' = <<>>
           /\ cache' = {} ]_vars

\* C12: when a request ends in an internal server error, the error handler rolls
\* the database session back before it renders the 500 page with the Sentry
\* event id: no failed transaction is left open for the next request.
C12_RollbackOn500 ==
    [][ (last'.task = "request" /\ last'.status = "500")
        => /\ last'.body.template = "500.html"
           /\ last'.body.event_id = "g.sentry_event_id"
           /\ \E i \in DOMAIN last'.calls : last'.calls[i] = "session.rollback"
           /\ ~sessionPending' ]_vars

----------------------------------------------------------------------------
(* Properties of run_cmpa, merge_project and parse_by_url *)

\* The last step was a run of run_cmpa on an experiment of the table
CmpaRun == last.task = "run_cmpa" /\ last.args \in DOMAIN experiments

Called(name) == \E i \in DOMAIN last.calls : last.calls[i] = name

\* C13: after scoring run_cmpa has exactly two outcomes.  If the commit succeeds
\* the experiment is completed with the serialized scores as its result, the
\* task returns experiment_id and the 'CMPA Analysis complete' mail goes to the
\* experiment's user iff the mail extension is configured; if the commit raises
\* the session is rolled back, the task returns -1 and no mail is sent.  The
\* session is closed in both.
C13_TwoOutcomes ==
    CmpaRun =>
        /\ Called("session.close")
        /\ IF last.draws.committed
           THEN /\ experiments[last.args].completed
                /\ experiments[last.args].result = dumps(last.draws.scores)
                /\ last.state = "returned"
                /\ last.ret = IntValue(last.args)
                /\ IF mailConfigured
                   THEN /\ Len(last.mails) = 1
                        /\ last.mails[1].subject = "CMPA Analysis complete"
                        /\ last.mails[1].recipients = {Email(experiments[last.args].user)}
                   ELSE last.mails = <<>>
           ELSE /\ Called("session.rollback")
                /\ last.state = "returned"
                /\ last.ret = IntValue(-1)
                /\ last.mails = <<>>

\* C14: a merge of a project's networks for an existing user stores nothing in
\* the database and delivers the merged graph by exactly one channel.  Without
\* mail it writes the union to '<PYBEL_DATA_DIR>/<name>.bel', returns None and
\* sends nothing; with mail it writes no file, sends one message to the user's
\* email with the script attached as 'merged.bel', and returns 1.  The merged
\* graph has version '1.0.0' and a UUID not generated before as its name.
C14_MergeOneChannel ==
    [][ ( /\ last'.task = "merge_project"
          /\ last' # last
          /\ last'.args[1] \in Users
          /\ last'.args[2] \in DOMAIN projects
          /\ projects[last'.args[2]].networks # {} )
        => LET graph == last'.draws.graph
               path == <<PYBEL_DATA_DIR, "/", graph.name, ".bel">>
           IN /\ UNCHANGED <<networks, reports, projects, experiments, queries>>
              /\ graph.version = "1.0.0"
              /\ graph.name = uuid4(uuids')
              /\ uuids' = uuids + 1
              /\ \A n \in 1..uuids : graph.name # uuid4(n)
              /\ graph.content =
                    { networks[n].blob[3] : n \in projects[last'.args[2]].networks }
              /\ last'.state = "returned"
              /\ IF ~mailConfigured
                 THEN /\ files' = files \cup {[path |-> path, graph |-> graph]}
                      /\ last'.ret = <<"None">>
                      /\ last'.mails = <<>>
                 ELSE /\ files' = files
                      /\ Len(last'.mails) = 1
                      /\ last'.mails[1].recipients = {Email(last'.args[1])}
                      /\ Len(last'.mails[1].attachments) = 1
                      /\ last'.mails[1].attachments[1].filename = "merged.bel"
                      /\ last'.mails[1].attachments[1].data = to_bel_lines(graph)
                      /\ last'.ret = IntValue(1) ]_vars

C14_Witness ==
    /\ last.task = "merge_project" /\ last.state = "returned"
    /\ last.args[1] = "alice"
    /\ mailConfigured
    /\ Len(last.mails) = 1
    /\ last.draws.graph.content = {"c1", "c2"}
    /\ last.draws.graph.name = uuid4(2)
    /\ files = {}

\* C15: every task the admin routes send is sent under the name parse_by_url is
\* registered under, and a run of parse_by_url returns, never raises: 'Parsing
\* failed for <url>. ' when parsing raises, without a call of insert_graph;
\* 'Inserting failed for <url>' when insertion raises, after a rollback;
\* otherwise the id of the inserted network.
C15_ParseByUrlReturns ==
    [][ /\ \A i \in DOMAIN taskQueue' :
              /\ taskQueue'[i].name \in DOMAIN RegisteredTasks
              /\ RegisteredTasks[taskQueue'[i].name] = "parse_by_url"
        /\ (taskQueue # <<>> /\ taskQueue' = Tail(taskQueue))
           => LET url == Head(taskQueue).args[1]
                  run == last'
                  called(name) == \E i \in DOMAIN run.calls : run.calls[i] = name
              IN  /\ run.task = "parse_by_url"
                  /\ run.args = url
                  /\ run.state = "returned"
                  /\ IF ~run.draws.parsed
                     THEN /\ run.ret = <<"Parsing failed for ", url, ". ">>
                          /\ ~called("insert_graph")
                          /\ networks' = networks
                     ELSE IF run.draws.io # "ok"
                     THEN /\ run.ret = <<"Inserting failed for ", url>>
                          /\ called("session.rollback")
                          /\ networks' = networks
                     ELSE \E n \in DOMAIN networks' :
                             /\ run.ret = IntValue(n)
                             /\ networks'[n].name = UrlGraph(url).name
                             /\ networks'[n].version = UrlGraph(url).version
                             /\ \A m \in DOMAIN networks : networks'[m] = networks[m] ]_vars

C15_Witness ==
    /\ last.task = "parse_by_url"
    /\ last.args = GENE_FAMILIES
    /\ last.draws.parsed /\ last.draws.io = "OperationalError"
    /\ last.ret = <<"Inserting failed for ", GENE_FAMILIES>>
    /\ Called("session.rollback")
    /\ Len(networks) = 2

----------------------------------------------------------------------------
(* Properties of FlaskPyBEL *)

\* C16: get_state(app) raises ValueError('FlaskPyBEL has not been instantiated')
\* when no FlaskPyBEL has been initialised on app; once an init_app(app, manager)
\* has completed, get_state(app) returns the object of that call, get_manager(app)
\* the manager passed to it, and get_api, get_user_datastore and get_sentry the
\* objects that call created.
C16_GetState ==
    [][ /\ ( last'.task \in {"init_app", "__init__"} /\ last' # last
             /\ last'.args.manager # NoneObject )
           => LET k == last'.args.self
                  made == CreatedBy(k, instances'[k].inits)
              IN  /\ last'.state = "returned"
                  /\ pbw' = k
                  /\ instances'[k].inits = (IF k \in DOMAIN instances
                                            THEN instances[k].inits ELSE 0) + 1
                  /\ instances'[k].manager = last'.args.manager
                  /\ instances'[k].api = made.api
                  /\ instances'[k].user_datastore = made.user_datastore
                  /\ instances'[k].sentry = made.sentry
        /\ ( last'.task \in Accessors )
           => IF \A k \in DOMAIN instances : instances[k].api = NoneObject
              THEN /\ last'.state = "raised"
                   /\ last'.ret = <<"ValueError", "FlaskPyBEL has not been instantiated">>
              ELSE /\ last'.state = "returned"
                   /\ pbw \in DOMAIN instances
                   /\ last'.ret =
                        CASE last'.task = "get_state" -> FlaskPyBELObject(pbw)
                          [] last'.task = "get_manager" -> instances[pbw].manager
                          [] last'.task = "get_api" -> instances[pbw].api
                          [] last'.task = "get_user_datastore" -> instances[pbw].user_datastore
                          [] OTHER -> instances[pbw].sentry ]_vars

C16_Witness ==
    /\ last.task = "get_manager" /\ last.state = "returned"
    /\ Len(instances) = 2
    /\ pbw = 2
    /\ instances[1].manager = <<"Manager", "1">>
    /\ instances[2].manager = <<"Manager", "2">>
    /\ last.ret = <<"Manager", "2">>

----------------------------------------------------------------------------
(* Properties of the insertion in async_parser *)

\* The last step was a run of async_parser in which insert_graph raised
InsertFailed ==
    /\ RunOnReport
    /\ \E i \in DOMAIN last.calls : last.calls[i] = "insert_graph"
    /\ last.io # "ok"

\* C17: a failure of insert_graph in async_parser rolls the session back and
\* ends the task with subject 'Upload Failed for <source_name>' and the message
\* of the exception's type: the integrity message of the graph's name and
\* version, 'Database is locked. Unable to upload.', or 'Error storing in
\* database: <error>'.  report.message is that message, the task returns it,
\* and the report is not filled out.
C17_InsertFailure ==
    InsertFailed =>
        LET report == reports[last.report_id]
            graph == last.po.graph
            message ==
                CASE last.io = "IntegrityError" -> integrity_message(graph.name, graph.version)
                  [] last.io = "OperationalError" -> <<"Database is locked. Unable to upload.">>
                  [] OTHER -> <<"Error storing in database: ", last.io>>
        IN  /\ Called("session.rollback")
            /\ last.state = "returned"
            /\ last.subject = <<"Upload Failed for ", report.source_name>>
            /\ last.ret = message
            /\ report.message = message
            /\ ~Called("fill_out_report")
            /\ ~report.completed
            /\ report.network = 0
            /\ LookupNetwork(networks, graph.name, graph.version) = 0

C17_Witness ==
    /\ InsertFailed
    /\ last.io = "OperationalError"
    /\ last.ret = <<"Database is locked. Unable to upload.">>
    /\ reports[last.report_id].message = last.ret
    /\ Called("session.rollback")
    /\ networks = <<>>

----------------------------------------------------------------------------
(* Properties of the routes that build a query *)

\* The request answered last was for a network the user has no permission for,
\* or for a project the user is not among the users of
RequestWithoutPermission(req) ==
    /\ req.task = "request"
    /\ CASE req.handler = "view_explore_network" ->
              req.args \notin get_network_ids_with_permission_helper(req.user)
         [] req.handler = "build_summary_link_query" ->
              req.args.network_id \notin get_network_ids_with_permission_helper(req.user)
         [] req.handler = "view_explore_project" ->
              /\ req.args \in DOMAIN projects
              /\ req.user \notin projects[req.args].users
         [] OTHER -> FALSE

\* C18: view_explore_network, build_summary_link_query and view_explore_project
\* check the current user's permission for the network, or membership of the
\* project, of the request before they create a Query: a request that fails the
\* check persists no Query.
C18_NoQueryWithoutPermission ==
    [][ RequestWithoutPermission(last') => queries' = queries ]_vars

====
